---------------------------- MODULE Spec2Model ----------------------------
(***************************************************************************)
(* A model of mlens/parallel/_base_functions.py: the column allocator      *)
(* (set_output_columns), the row slicer (slice_array), the prediction      *)
(* writer (assign_predictions) and the transform adapter (transform).      *)
(*                                                                         *)
(* Python values are modelled as tagged records, so that None, 'all', a    *)
(* bare (start, end) pair and a sequence of pairs can be told apart the    *)
(* way the code tells them apart (truthiness, isinstance, `is None`).      *)
(* A numpy array of n rows is a sequence of n rows; the local row index i  *)
(* of the code is position i + 1 of the sequence.                          *)
(***************************************************************************)
EXTENDS Integers, Sequences, FiniteSets, TLC

(***************************************************************************)
(* Bounds of the model.                                                    *)
(***************************************************************************)
MaxHandles == 3
MaxPartitions == 2
MaxMultiplier == 2
MaxLeft == 1
MaxTarget == 7
NRows == 4
NCols == 3
MaxPairs == 2
MaxOffset == 2
MaxWorkers == 2
ConcRows == 2
MaxValue == 1

VARIABLES
    phase,              \* which call the run is at
    objects,            \* set_output_columns: the handles passed in (a sequence of [name])
    n_partitions,       \* set_output_columns: argument
    multiplier,         \* set_output_columns: argument
    n_left_concats,     \* set_output_columns: argument
    target,             \* set_output_columns: argument (None or an int)
    output_columns,     \* obj.output_columns of every handle, by position in objects
    col_index,          \* set_output_columns: the final column offset
    raised,             \* the exception that left the last call, or NoError
    buffer,             \* the array sliced (x) and written (pred): a sequence of rows
    yvec,               \* slice_array: y (None or a vector)
    rowspec,            \* the row spec passed as idx / tei
    offset,             \* r: how many leading global rows the buffer lacks
    column,             \* assign_predictions: col
    block,              \* assign_predictions: p, the prediction block
    sliced,             \* what slice_array returned
    written_by,         \* for every cell of the shared matrix, the workers that stored into it
    worker_tei,         \* the row spec each worker called assign_predictions with (None: not yet)
    transformer,        \* transform: tr, by what its transform method accepts and does
    tr_args,            \* transform: the arguments x and y
    calls,              \* transform: the calls made to tr.transform, in order
    returned            \* transform: the (x, y) returned

allocVars == <<objects, n_partitions, multiplier, n_left_concats, target,
               output_columns, col_index>>

rwVars == <<buffer, yvec, rowspec, offset, column, block, sliced>>

concVars == <<written_by, worker_tei>>

trVars == <<transformer, tr_args, calls, returned>>

vars == <<phase, allocVars, raised, rwVars, concVars, trVars>>

(***************************************************************************)
(* Python values.                                                          *)
(***************************************************************************)
None == [kind |-> "none"]
IntVal(i) == [kind |-> "int", v |-> i]
NoError == [kind |-> "ok"]
Unset == [kind |-> "unset"]

\* `if (target)`: None and 0 are falsy, every other int is truthy.
TruthyInt(t) == t.kind = "int" /\ t.v # 0

Min(a, b) == IF a < b THEN a ELSE b
Max(a, b) == IF a > b THEN a ELSE b

(***************************************************************************)
(* set_output_columns                                                      *)
(***************************************************************************)
\* sorted_learners = {obj.name: obj for obj in objects}: a later object with
\* the same name replaces an earlier one. Objects are named by their position.
sorted_learners(objs) ==
    [nm \in {objs[i].name : i \in DOMAIN objs} |->
        CHOOSE i \in DOMAIN objs :
            /\ objs[i].name = nm
            /\ \A k \in DOMAIN objs : objs[k].name = nm => k <= i]

RECURSIVE SortAscending(_)
SortAscending(S) ==
    IF S = {} THEN <<>>
    ELSE LET m == CHOOSE a \in S : \A b \in S : a <= b
         IN <<m>> \o SortAscending(S \ {m})

RECURSIVE SortDescending(_)
SortDescending(S) ==
    IF S = {} THEN <<>>
    ELSE LET m == CHOOSE a \in S : \A b \in S : a >= b
         IN <<m>> \o SortDescending(S \ {m})

\* A sort with reverse=True.
sorted_items_reversed(d) ==
    LET keys == SortDescending(DOMAIN d)
    IN [k \in DOMAIN keys |-> <<keys[k], d[keys[k]]>>]

\* sorted(sorted_learners.items()): the (name, obj) items in ascending name order.
sorted_items(d) ==
    LET keys == SortAscending(DOMAIN d)
    IN [k \in DOMAIN keys |-> <<keys[k], d[keys[k]]>>]

\* col_index += 1, whatever the multiplier.
advance_by_one(ci, m) == ci + 1

\* col_index += multiplier
advance(ci, m) == ci + m

\* for partition_index in range(n_partitions): col_dict[partition_index] = col_index; ...
RECURSIVE partition_loop(_, _, _, _, _)
partition_loop(j, np, m, ci, col_dict) ==
    IF j >= np THEN [col_dict |-> col_dict, col_index |-> ci]
    ELSE partition_loop(j + 1, np, m, advance(ci, m), col_dict @@ (j :> ci))

\* for _, obj in sorted(...): ...; col_map.append([obj, col_dict])
RECURSIVE learner_loop(_, _, _, _, _, _)
learner_loop(items, k, np, m, ci, col_map) ==
    IF k > Len(items) THEN [col_map |-> col_map, col_index |-> ci]
    ELSE LET inner == partition_loop(0, np, m, ci, <<>>)
         IN learner_loop(items, k + 1, np, m, inner.col_index,
                         Append(col_map, <<items[k][2], inner.col_dict>>))

\* The ValueError of lines 58-62, with the two numbers its message reports.
LayoutMismatch(t, ci) == [kind |-> "ValueError", target |-> t, max_col |-> ci - 1]

\* The whole call: the final offset, the exception (if any) and the
\* output_columns of every object afterwards.
set_output_columns(objs, np, m, left, t, old_columns) ==
    LET loop == learner_loop(sorted_items(sorted_learners(objs)), 1, np, m, left, <<>>)
        ci == loop.col_index
        fails == TruthyInt(t) /\ ci # t.v
        assigned(i) == {k \in DOMAIN loop.col_map : loop.col_map[k][1] = i}
    IN [col_index |-> ci,
        raised |-> IF fails THEN LayoutMismatch(t.v, ci) ELSE NoError,
        output_columns |->
            IF fails THEN old_columns
            ELSE [i \in DOMAIN objs |->
                    IF assigned(i) # {}
                    THEN [kind |-> "dict",
                          d |-> loop.col_map[CHOOSE k \in assigned(i) : TRUE][2]]
                    ELSE old_columns[i]]]

(***************************************************************************)
(* numpy indexing, as slice_array and assign_predictions use it.           *)
(***************************************************************************)
IndexError == [kind |-> "IndexError"]
ShapeError == [kind |-> "ValueError"]

\* A row spec: 'all', None, a bare pair (a, b), or a tuple of pairs.
All == [kind |-> "all"]
BarePair(t) == [kind |-> "pair", t |-> t]
PairTuple(ts) == [kind |-> "pairs", t |-> ts]
Vec(v) == [kind |-> "vec", v |-> v]

\* `if idx:`: None and the empty tuple are falsy.
Truthy(idx) ==
    CASE idx.kind = "none" -> FALSE
      [] idx.kind = "pairs" -> Len(idx.t) > 0
      [] OTHER -> TRUE

\* The local indices slice(lo, hi) selects in an axis of length n: a negative
\* bound counts from the end, both bounds are clipped, nothing is raised.
slice_indices(n, lo, hi) ==
    LET norm(i) == IF i < 0 THEN Max(i + n, 0) ELSE Min(i, n)
        first == norm(lo)
        last == norm(hi)
    IN [k \in 1..Max(last - first, 0) |-> first + k - 1]

\* np.arange(lo, hi + 1): the end is taken inclusive.
arange_inclusive(lo, hi) == [k \in 1..Max(hi - lo + 1, 0) |-> lo + k - 1]

\* np.arange(lo, hi): lo, lo + 1, ..., hi - 1; empty when hi <= lo.
arange(lo, hi) == [k \in 1..Max(hi - lo, 0) |-> lo + k - 1]

\* The same ranges stacked last pair first.
RECURSIVE hstack_aranges_reversed(_, _)
hstack_aranges_reversed(ts, r) ==
    IF ts = <<>> THEN <<>>
    ELSE hstack_aranges_reversed(Tail(ts), r) \o arange(ts[1][1] - r, ts[1][2] - r)

\* np.hstack([np.arange(t0 - r, t1 - r) for t0, t1 in ts])
RECURSIVE hstack_aranges(_, _)
hstack_aranges(ts, r) ==
    IF ts = <<>> THEN <<>>
    ELSE arange(ts[1][1] - r, ts[1][2] - r) \o hstack_aranges(Tail(ts), r)

\* An integer index array is valid on an axis of length n when every index is
\* in [-n, n); a negative index counts from the end.
fancy_ok(n, ix) == \A k \in DOMAIN ix : -n <= ix[k] /\ ix[k] < n
wrap(n, i) == IF i < 0 THEN i + n ELSE i

\* a[ix] for valid local indices ix (which slice_indices always yields).
take(a, ix) == [k \in DOMAIN ix |-> a[wrap(Len(a), ix[k]) + 1]]

(***************************************************************************)
(* slice_array                                                             *)
(***************************************************************************)
\* The result: the two arrays, the path taken ("whole", "slice", "gather"),
\* whether x shares storage with the argument, and the exception if any.
SliceResult(x, y, path, shares) ==
    [x |-> x, y |-> y, path |-> path, shares |-> shares, error |-> NoError]
SliceFailure(err) ==
    [x |-> <<>>, y |-> None, path |-> "raised", shares |-> FALSE, error |-> err]

\* Lines 94-96: basic slicing, a view.
simple_slice(x, y, t, r) ==
    LET ix == slice_indices(Len(x), t[1] - r, t[2] - r)
    IN IF Len(t) < 2 THEN SliceFailure(IndexError)
       ELSE SliceResult(take(x, ix),
                        IF y.kind # "none"
                        THEN Vec(take(y.v, slice_indices(Len(y.v), t[1] - r, t[2] - r)))
                        ELSE y,
                        "slice", TRUE)

\* Lines 80-83: advanced indexing, a copy.
gather_slice(x, y, ts, r) ==
    LET ix == hstack_aranges(ts, r)
    IN IF ~fancy_ok(Len(x), ix) THEN SliceFailure(IndexError)
       ELSE IF y.kind # "none" /\ ~fancy_ok(Len(y.v), ix) THEN SliceFailure(IndexError)
       ELSE SliceResult(take(x, ix),
                        IF y.kind # "none" THEN Vec(take(y.v, ix)) ELSE y,
                        "gather", FALSE)

\* slice_array(x, y, idx, r). The test of line 77 is on len(idx[0]), the
\* length of the first pair, not on the number of pairs.
slice_array(x, y, idx, r) ==
    LET idx1 == IF idx.kind = "all" THEN None ELSE idx
    IN IF ~Truthy(idx1) THEN SliceResult(x, y, "whole", TRUE)
       ELSE IF idx1.kind = "pairs"
            THEN IF Len(idx1.t[1]) > 1
                 THEN gather_slice(x, y, idx1.t, r)
                 ELSE simple_slice(x, y, idx1.t[1], r)
            ELSE simple_slice(x, y, idx1.t, r)

(***************************************************************************)
(* assign_predictions                                                      *)
(***************************************************************************)
\* A prediction block p: p.ndim is len(p.shape), p.rows its rows, each of
\* p.width values (a 1-D block has rows of one value).
Width(p) == p.width

\* r = 0: the buffer is taken to span the whole dataset.
zero_offset(n, rows) == 0

\* r = n - pred.shape[0]
row_offset(n, rows) == n - rows

\* idx = slice(tei[0] - r + 1, tei[1] - r): the start is off by one.
pair_rows_shifted(rows, t, r) ==
    [ix |-> slice_indices(rows, t[1] - r + 1, t[2] - r), error |-> NoError]

\* idx = slice(tei[0] - r, tei[1] - r), lines 125 and 127.
pair_rows(rows, t, r) ==
    [ix |-> slice_indices(rows, t[1] - r, t[2] - r), error |-> NoError]

\* Lines 109-127: the local rows the call writes, in block order.
target_rows(rows, tei, n) ==
    LET tei1 == IF tei.kind = "all" THEN None ELSE tei
        r == row_offset(n, rows)
    IN IF tei1.kind = "none" THEN [ix |-> slice_indices(rows, 0, rows), error |-> NoError]
       ELSE IF tei1.kind = "pairs"
            THEN IF Len(tei1.t) = 0 THEN [ix |-> <<>>, error |-> IndexError]
                 ELSE IF Len(tei1.t) > 1
                      THEN LET ix == hstack_aranges(tei1.t, r)
                           IN IF fancy_ok(rows, ix)
                              THEN [ix |-> [k \in DOMAIN ix |-> wrap(rows, ix[k])],
                                    error |-> NoError]
                              ELSE [ix |-> <<>>, error |-> IndexError]
                      ELSE pair_rows(rows, tei1.t[1], r)
            ELSE pair_rows(rows, tei1.t, r)

\* Lines 113-116 and 129-132: the columns the call writes. A 1-D block goes to
\* the single column col, a 2-D block to the slice col:col + p.shape[1].
target_cols(ncols, p, col) ==
    IF p.ndim = 1
    THEN IF -ncols <= col /\ col < ncols
         THEN [ix |-> <<wrap(ncols, col)>>, error |-> NoError]
         ELSE [ix |-> <<>>, error |-> IndexError]
    ELSE [ix |-> slice_indices(ncols, col, col + Width(p)), error |-> NoError]

\* p is broadcast to the target: an axis of the block fits when it has the
\* target's length or length 1.
fits(have, want) == have = want \/ have = 1

\* The cells (local row, column), 0-based, that the call stores into.
write_cells(pred, ncols, p, tei, col, n) ==
    LET tr == target_rows(Len(pred), tei, n)
        tc == target_cols(ncols, p, col)
    IN IF tr.error.kind # "ok" \/ tc.error.kind # "ok"
          \/ ~fits(Len(p.rows), Len(tr.ix)) \/ ~fits(Width(p), Len(tc.ix))
       THEN {}
       ELSE {<<tr.ix[k], tc.ix[c]>> : k \in DOMAIN tr.ix, c \in DOMAIN tc.ix}

\* assign_predictions(pred, p, tei, col, n): the buffer afterwards and the
\* exception if any. Where an index array names a row twice, the later block
\* row is the one kept.
assign_predictions(pred, ncols, p, tei, col, n) ==
    LET tr == target_rows(Len(pred), tei, n)
        tc == target_cols(ncols, p, col)
        brow(k) == IF Len(p.rows) = 1 THEN 1 ELSE k
        bcol(c) == IF Width(p) = 1 THEN 1 ELSE c
        hits(i) == {k \in DOMAIN tr.ix : tr.ix[k] = i - 1}
        last(S) == CHOOSE k \in S : \A k2 \in S : k2 <= k
        colpos(j) == CHOOSE c \in DOMAIN tc.ix : tc.ix[c] = j - 1
    IN IF tr.error.kind # "ok" THEN [pred |-> pred, error |-> tr.error]
       ELSE IF tc.error.kind # "ok" THEN [pred |-> pred, error |-> tc.error]
       ELSE IF ~fits(Len(p.rows), Len(tr.ix)) \/ ~fits(Width(p), Len(tc.ix))
            THEN [pred |-> pred, error |-> ShapeError]
       ELSE [pred |->
                [i \in DOMAIN pred |->
                    [j \in 1..ncols |->
                        IF hits(i) # {} /\ (\E c \in DOMAIN tc.ix : tc.ix[c] = j - 1)
                        THEN p.rows[brow(last(hits(i)))][bcol(colpos(j))]
                        ELSE pred[i][j]]],
             error |-> NoError]

(***************************************************************************)
(* The buffers and row specs the slicer and the writer are run on.         *)
(***************************************************************************)
\* The full buffer: every cell holds a value that names its global row and
\* its column. A sub-buffer is the full one without its first r rows.
InitCell(i, j) == i * 10 + j
FullMatrix == [i \in 1..NRows |-> [j \in 1..NCols |-> InitCell(i - 1, j - 1)]]
FullY == [i \in 1..NRows |-> 80 + i]
SubBuffer(a, k) == SubSeq(a, k + 1, Len(a))

\* The block of a worker: k rows of w values, each naming its position.
Block(tag, k, w, ndim) ==
    [ndim |-> ndim, width |-> w,
     rows |-> [kk \in 1..k |-> [jj \in 1..w |-> tag * 100 + (kk - 1) * 10 + (jj - 1)]]]
NoBlock == Block(0, 0, 0, 2)

Overlap(a, b) == a[1] < a[2] /\ b[1] < b[2] /\ a[1] < b[2] /\ b[1] < a[2]

\* Tuples of up to MaxPairs pairs from U, no two of them overlapping.
PairTuples(U, least) ==
    {ts \in UNION {[1..k -> U] : k \in least..MaxPairs} :
        \A a, b \in DOMAIN ts : a # b => ~Overlap(ts[a], ts[b])}

RowSpecs(U, least) ==
    {All} \cup {BarePair(t) : t \in U} \cup {PairTuple(ts) : ts \in PairTuples(U, least)}

\* Well-formed pairs inside [lo, hi).
ProperPairs(lo, hi) == {t \in (lo..hi) \X (lo..hi) : t[1] < t[2]}

\* Pairs with end <= start.
MalformedPairs(lo, hi) == {t \in (lo..hi) \X (lo..hi) : t[2] <= t[1] /\ t[1] - t[2] <= 1}

\* How many rows a well-formed spec selects in a buffer of n rows.
RECURSIVE PairsLength(_)
PairsLength(ts) ==
    IF ts = <<>> THEN 0 ELSE Max(ts[1][2] - ts[1][1], 0) + PairsLength(Tail(ts))
SpecLength(spec, n) ==
    CASE spec.kind = "pair" -> PairsLength(<<spec.t>>)
      [] spec.kind = "pairs" -> PairsLength(spec.t)
      [] OTHER -> n

RWIdle ==
    /\ buffer = <<>> /\ yvec = None /\ rowspec = None /\ offset = 0 /\ column = 0
    /\ block = NoBlock /\ sliced = SliceFailure(NoError)

AllocIdle ==
    /\ objects = <<>> /\ n_partitions = 0 /\ multiplier = 1 /\ n_left_concats = 0
    /\ target = None /\ output_columns = <<>> /\ col_index = 0

ConcIdle == written_by = <<>> /\ worker_tei = <<>>

TrIdle ==
    /\ transformer = None /\ tr_args = <<>> /\ calls = <<>> /\ returned = None

(***************************************************************************)
(* Write then read back: a worker stores its block with assign_predictions *)
(* and the same spec is then read with slice_array. The buffer is the full *)
(* one (r = 0) or a sub-buffer (r > 0); the spec lies inside [r, NRows).   *)
(***************************************************************************)
RWInit ==
    /\ phase = "start"
    /\ raised = NoError
    /\ AllocIdle /\ ConcIdle /\ TrIdle
    /\ offset \in 0..MaxOffset
    /\ buffer = SubBuffer(FullMatrix, offset)
    /\ yvec \in {None, Vec(SubBuffer(FullY, offset))}
    /\ rowspec \in RowSpecs(ProperPairs(offset, NRows), 1)
    /\ \E w \in 1..MaxMultiplier, ndim \in 1..2 :
          /\ ndim = 1 => w = 1
          /\ column \in 0..(NCols - w)
          /\ block = Block(1, SpecLength(rowspec, NRows - offset), w, ndim)
    /\ sliced = SliceFailure(NoError)

AssignCall ==
    /\ phase = "start"
    /\ LET res == assign_predictions(buffer, NCols, block, rowspec, column, NRows)
       IN buffer' = res.pred /\ raised' = res.error
    /\ phase' = "written"
    /\ UNCHANGED <<yvec, rowspec, offset, column, block, sliced, allocVars,
                   concVars, trVars>>

SliceCall ==
    /\ phase = "written"
    /\ sliced' = slice_array(buffer, yvec, rowspec, offset)
    /\ raised' = sliced'.error
    /\ phase' = "sliced"
    /\ UNCHANGED <<buffer, yvec, rowspec, offset, column, block, allocVars,
                   concVars, trVars>>

RWNext == AssignCall \/ SliceCall

SpecRW == RWInit /\ [][RWNext]_vars

(***************************************************************************)
(* slice_array alone, on every row spec: pairs inside the buffer, pairs     *)
(* that start before it or end past it, pairs with end <= start, the       *)
(* empty tuple.                                                            *)
(***************************************************************************)
SliceInit ==
    /\ phase = "written"
    /\ raised = NoError
    /\ AllocIdle /\ ConcIdle /\ TrIdle
    /\ offset \in 0..MaxOffset
    /\ buffer = SubBuffer(FullMatrix, offset)
    /\ yvec = Vec(SubBuffer(FullY, offset))
    /\ rowspec \in RowSpecs(ProperPairs(0, NRows + 1) \cup MalformedPairs(0, NRows + 1), 0)
    /\ column = 0
    /\ block = NoBlock
    /\ sliced = SliceFailure(NoError)

SpecSlice == SliceInit /\ [][SliceCall]_vars

(***************************************************************************)
(* The allocator as a state machine: Init draws the arguments, one action  *)
(* is the call.                                                            *)
(***************************************************************************)
Names == 1..MaxHandles

HandleSeqs == UNION {[1..n -> [name : Names]] : n \in 0..MaxHandles}

Targets == {None} \cup {IntVal(t) : t \in 0..MaxTarget}

AllocInit ==
    /\ phase = "start"
    /\ objects \in HandleSeqs
    /\ n_partitions \in 0..MaxPartitions
    /\ multiplier \in 1..MaxMultiplier
    /\ n_left_concats \in 0..MaxLeft
    /\ target \in Targets
    /\ output_columns = [i \in DOMAIN objects |-> Unset]
    /\ col_index = n_left_concats
    /\ raised = NoError
    /\ RWIdle /\ ConcIdle /\ TrIdle

AllocCall(res) ==
    /\ phase' = "allocated"
    /\ col_index' = res.col_index
    /\ raised' = res.raised
    /\ output_columns' = res.output_columns
    /\ UNCHANGED <<objects, n_partitions, multiplier, n_left_concats, target>>

\* set_output_columns returns normally.
AllocSucceeds ==
    /\ phase = "start"
    /\ LET res == set_output_columns(objects, n_partitions, multiplier,
                                     n_left_concats, target, output_columns)
       IN res.raised.kind = "ok" /\ AllocCall(res)
    /\ UNCHANGED <<rwVars, concVars, trVars>>

\* set_output_columns raises the layout-mismatch ValueError.
AllocRaises ==
    /\ phase = "start"
    /\ LET res == set_output_columns(objects, n_partitions, multiplier,
                                     n_left_concats, target, output_columns)
       IN res.raised.kind # "ok" /\ AllocCall(res)
    /\ UNCHANGED <<rwVars, concVars, trVars>>

AllocNext == AllocSucceeds \/ AllocRaises

SpecAlloc == AllocInit /\ [][AllocNext]_vars

(***************************************************************************)
(* One layer: set_output_columns fixes the layout, the shared matrix is    *)
(* allocated with that many columns, and one worker per (handle,           *)
(* partition) calls assign_predictions on it with its allocated start      *)
(* column, a block of multiplier columns and a row spec of its own. The    *)
(* workers run in any order.                                               *)
(***************************************************************************)
Zeros(n, c) == [i \in 1..n |-> [j \in 1..c |-> 0]]

Workers == (DOMAIN objects) \X (0..(n_partitions - 1))

WorkerTag(w) == (w[1] - 1) * n_partitions + w[2] + 1

\* The block a worker writes: multiplier columns, 1-D when multiplier is 1.
WorkerBlock(w, tei) ==
    Block(WorkerTag(w), SpecLength(tei, ConcRows), multiplier,
          IF multiplier = 1 THEN 1 ELSE 2)

\* The column a worker passes as col: its handle's output_columns entry.
worker_col(w) == output_columns[w[1]].d[w[2]]

\* Handles 1..h in ascending or in descending name order.
ConcHandles ==
    UNION {{[i \in 1..h |-> [name |-> i]], [i \in 1..h |-> [name |-> h + 1 - i]]}
            : h \in 1..MaxWorkers}

ConcInit ==
    /\ phase = "start"
    /\ raised = NoError
    /\ objects \in ConcHandles
    /\ n_partitions \in 1..MaxWorkers
    /\ Len(objects) * n_partitions <= MaxWorkers
    /\ multiplier \in {1, MaxMultiplier}
    /\ n_left_concats \in {0, MaxLeft}
    /\ target = None
    /\ output_columns = [i \in DOMAIN objects |-> Unset]
    /\ col_index = n_left_concats
    /\ buffer = <<>>
    /\ yvec = None /\ rowspec = None /\ offset = 0 /\ column = 0
    /\ block = NoBlock /\ sliced = SliceFailure(NoError)
    /\ written_by = <<>>
    /\ worker_tei = [w \in Workers |-> None]
    /\ TrIdle

\* set_output_columns, then the allocation of the shared matrix.
ConcLayout ==
    /\ phase = "start"
    /\ LET res == set_output_columns(objects, n_partitions, multiplier,
                                     n_left_concats, target, output_columns)
       IN /\ res.raised.kind = "ok"
          /\ AllocCall(res)
          /\ buffer' = Zeros(ConcRows, res.col_index)
          /\ written_by' = [c \in (0..(ConcRows - 1)) \X (0..(res.col_index - 1)) |-> {}]
    /\ UNCHANGED <<yvec, rowspec, offset, column, block, sliced, worker_tei, trVars>>

\* One worker's call of assign_predictions.
WorkerWrite(w, tei) ==
    /\ phase = "allocated"
    /\ worker_tei[w].kind = "none"
    /\ LET blk == WorkerBlock(w, tei)
           res == assign_predictions(buffer, col_index, blk, tei, worker_col(w), ConcRows)
           cells == write_cells(buffer, col_index, blk, tei, worker_col(w), ConcRows)
       IN /\ buffer' = res.pred
          /\ raised' = IF res.error.kind = "ok" THEN raised ELSE res.error
          /\ written_by' = [c \in DOMAIN written_by |->
                              IF c \in cells THEN written_by[c] \cup {w} ELSE written_by[c]]
    /\ worker_tei' = [worker_tei EXCEPT ![w] = tei]
    /\ UNCHANGED <<phase, allocVars, yvec, rowspec, offset, column, block, sliced, trVars>>

\* The row specs of the workers: 'all', a bare pair, a tuple of two or more
\* pairs in ascending order with rows left out between them.
ConcSpecs ==
    {sp \in RowSpecs(ProperPairs(0, ConcRows), 2) :
        sp.kind = "pairs" =>
            \A k \in DOMAIN sp.t : k > 1 => sp.t[k - 1][2] < sp.t[k][1]}

ConcNext ==
    \/ ConcLayout
    \/ \E w \in Workers, tei \in ConcSpecs : WorkerWrite(w, tei)

SpecConc == ConcInit /\ [][ConcNext]_vars

(***************************************************************************)
(* transform                                                               *)
(***************************************************************************)
\* A transformer is described by whether its transform method can be called
\* with (x) and with (x, y), and by what its body does on each call: return,
\* raise a TypeError of its own, raise something else.
SignatureTypeError == [kind |-> "TypeError", from |-> "signature"]
BodyError(kind) == [kind |-> kind, from |-> "body"]

\* tr.transform(x)
call_x(tr, x) ==
    IF ~tr.accepts_x THEN [error |-> SignatureTypeError, value |-> None]
    ELSE IF tr.body_x # "ok" THEN [error |-> BodyError(tr.body_x), value |-> None]
    ELSE [error |-> NoError, value |-> IntVal(x + 10)]

\* tr.transform(x, y)
call_xy(tr, x, y) ==
    IF ~tr.accepts_xy THEN [error |-> SignatureTypeError, value |-> None]
    ELSE IF tr.body_xy # "ok" THEN [error |-> BodyError(tr.body_xy), value |-> None]
    ELSE [error |-> NoError, value |-> [kind |-> "pair", x |-> x + 20, y |-> y + 20]]

\* transform(tr, x, y): `except TypeError` catches every TypeError of the
\* first call, whatever raised it.
transform(tr, x, y) ==
    LET first == call_x(tr, x)
        second == call_xy(tr, x, y)
    IN IF first.error.kind = "ok"
       THEN [calls |-> <<(<<x>>)>>, error |-> NoError,
             value |-> [kind |-> "pair", x |-> first.value.v, y |-> y]]
       ELSE IF first.error.kind = "TypeError"
            THEN [calls |-> <<(<<x>>), (<<x, y>>)>>, error |-> second.error,
                  value |-> second.value]
            ELSE [calls |-> <<(<<x>>)>>, error |-> first.error, value |-> None]

Outcomes == {"ok", "TypeError", "ValueError"}

Transformers ==
    [kind : {"transformer"}, accepts_x : BOOLEAN, accepts_xy : BOOLEAN,
     body_x : Outcomes, body_xy : Outcomes]

TrInit ==
    /\ phase = "start"
    /\ raised = NoError
    /\ AllocIdle /\ RWIdle /\ ConcIdle
    /\ transformer \in Transformers
    /\ tr_args \in (0..MaxValue) \X (0..MaxValue)
    /\ calls = <<>>
    /\ returned = None

TransformCall(res) ==
    /\ phase' = "transformed"
    /\ calls' = res.calls
    /\ raised' = res.error
    /\ returned' = res.value
    /\ UNCHANGED <<transformer, tr_args, allocVars, rwVars, concVars>>

\* transform returns (x, y).
TransformReturns ==
    /\ phase = "start"
    /\ LET res == transform(transformer, tr_args[1], tr_args[2])
       IN res.error.kind = "ok" /\ TransformCall(res)

\* An exception leaves transform.
TransformRaises ==
    /\ phase = "start"
    /\ LET res == transform(transformer, tr_args[1], tr_args[2])
       IN res.error.kind # "ok" /\ TransformCall(res)

TrNext == TransformReturns \/ TransformRaises

SpecTr == TrInit /\ [][TrNext]_vars

(***************************************************************************)
(* Claims about set_output_columns.                                        *)
(***************************************************************************)
DistinctNames ==
    \A i, k \in DOMAIN objects : i # k => objects[i].name # objects[k].name

AllocSucceeded == phase = "allocated" /\ raised.kind = "ok"

\* The (handle, partition) pairs of the call.
HandlePartitions == (DOMAIN objects) \X (0..(n_partitions - 1))

ColumnRange(hp) ==
    LET start == output_columns[hp[1]].d[hp[2]]
    IN start..(start + multiplier - 1)

\* C2: after a successful call on handles with distinct names, the column
\* ranges [start, start + multiplier) of two distinct (handle, partition)
\* pairs never overlap, and together they are exactly the columns from
\* n_left_concats up to the final offset, which is
\* n_left_concats + handles * n_partitions * multiplier.
C2_DisjointCover ==
    (AllocSucceeded /\ DistinctNames) =>
        /\ \A i \in DOMAIN objects :
              /\ output_columns[i].kind = "dict"
              /\ DOMAIN output_columns[i].d = 0..(n_partitions - 1)
        /\ \A a, b \in HandlePartitions :
              a # b => ColumnRange(a) \cap ColumnRange(b) = {}
        /\ UNION {ColumnRange(a) : a \in HandlePartitions}
              = n_left_concats..(col_index - 1)
        /\ col_index = n_left_concats + Len(objects) * n_partitions * multiplier

C2_Witness ==
    /\ AllocSucceeded /\ DistinctNames
    /\ Len(objects) >= 2 /\ n_partitions >= 2 /\ multiplier >= 2
    /\ n_left_concats >= 1

\* C3 (as claimed): the call raises the layout-mismatch error exactly when a
\* target is supplied and differs from the final offset (every integer
\* target, 0 included), and the error reports the target and the offset - 1.
C3_RaisesIffMismatch ==
    phase = "allocated" =>
        /\ raised.kind = "ValueError"
              <=> (target.kind = "int" /\ col_index # target.v)
        /\ raised.kind = "ValueError"
              => (raised.target = target.v /\ raised.max_col = col_index - 1)

\* The rank of handle i in ascending name order.
NameRank(i) ==
    Cardinality({k \in DOMAIN objects : objects[k].name < objects[i].name})

\* C7: whatever the order of the input, the handle at rank i in ascending
\* name order gets partition j mapped to
\* n_left_concats + (i * n_partitions + j) * multiplier.
C7_LayoutByNameRank ==
    (AllocSucceeded /\ DistinctNames) =>
        \A i \in DOMAIN objects :
            /\ output_columns[i].kind = "dict"
            /\ \A j \in 0..(n_partitions - 1) :
                  /\ j \in DOMAIN output_columns[i].d
                  /\ output_columns[i].d[j]
                        = n_left_concats
                          + (NameRank(i) * n_partitions + j) * multiplier

C7_Witness ==
    /\ AllocSucceeded /\ DistinctNames
    /\ Len(objects) = 3 /\ n_partitions = 2
    /\ objects[1].name > objects[2].name
    /\ objects[3].name < objects[2].name
    /\ output_columns[3].d[1] = n_left_concats + multiplier

(***************************************************************************)
(* Claims about slice_array and assign_predictions.                        *)
(***************************************************************************)
\* The local rows a tuple of pairs names, as the specification words it:
\* start - r, ..., end - r - 1 of each pair, pair after pair.
RECURSIVE ClaimedRows(_, _)
ClaimedRows(ts, k) ==
    IF ts = <<>> THEN <<>>
    ELSE LET a == ts[1][1] - k
             b == ts[1][2] - k
         IN (IF a < b THEN [i \in 1..(b - a) |-> a + i - 1] ELSE <<>>)
            \o ClaimedRows(Tail(ts), k)

Written == phase \in {"written", "sliced"}

\* C4: on the full buffer (r = 0), after assign_predictions has written the
\* block at a spec and column, slice_array with the same spec returns as many
\* rows as the block has, and columns [c, c + w) of its k-th row are the k-th
\* row of the block.
C4_WriteThenSlice ==
    (phase = "sliced" /\ offset = 0) =>
        /\ raised.kind = "ok"
        /\ Len(sliced.x) = Len(block.rows)
        /\ \A k \in DOMAIN block.rows : \A j \in 1..block.width :
              sliced.x[k][column + j] = block.rows[k][j]

C4_Witness ==
    /\ phase = "sliced" /\ offset = 0
    /\ rowspec.kind = "pairs" /\ Len(rowspec.t) = 2
    /\ rowspec.t[1][1] > rowspec.t[2][1]
    /\ block.width = 2 /\ column = 1
    /\ sliced.x[2][3] = block.rows[2][2]

IsMalformed(t) == t[2] <= t[1]
InBuffer(t) == offset <= t[1] /\ t[2] <= NRows

\* C5 (as claimed): a spec of exactly one pair, bare or as a one-element
\* tuple, is read by the contiguous-slice path x[start - r : end - r] and the
\* result shares storage with x. Stated for well-formed pairs inside the
\* buffer.
C5_SinglePairIsView ==
    LET one == IF rowspec.kind = "pair" THEN rowspec.t ELSE rowspec.t[1]
    IN (/\ phase = "sliced"
        /\ rowspec.kind = "pair" \/ (rowspec.kind = "pairs" /\ Len(rowspec.t) = 1)
        /\ ~IsMalformed(one) /\ InBuffer(one))
       => /\ sliced.path = "slice" /\ sliced.shares
          /\ sliced.x = SubSeq(buffer, one[1] - offset + 1, one[2] - offset)

\* The full buffer of which the current buffer is the last NRows - r rows.
FullOf(sub) == SubSeq(FullMatrix, 1, offset) \o sub
FullYOf(y) == IF y.kind = "none" THEN y ELSE Vec(SubSeq(FullY, 1, offset) \o y.v)

\* C6: for a spec of pairs inside [r, NRows), writing to the sub-buffer
\* stores the block in exactly the cells that hold the global rows the same
\* call on the full buffer writes, and slicing the sub-buffer with r returns
\* the rows that slicing the full buffer with 0 returns.
C6_SubBufferAgrees ==
    (Written /\ rowspec.kind # "all") =>
        LET full == assign_predictions(FullMatrix, NCols, block, rowspec, column, NRows)
            sub_cells == write_cells(SubBuffer(FullMatrix, offset), NCols, block,
                                     rowspec, column, NRows)
            full_cells == write_cells(FullMatrix, NCols, block, rowspec, column, NRows)
        IN /\ full.error.kind = "ok"
           /\ phase = "written" => raised.kind = "ok"
           /\ buffer = SubBuffer(full.pred, offset)
           /\ SubSeq(full.pred, 1, offset) = SubSeq(FullMatrix, 1, offset)
           /\ full_cells = {<<c[1] + offset, c[2]>> : c \in sub_cells}
           /\ phase = "sliced" =>
                LET whole == slice_array(FullOf(buffer), FullYOf(yvec), rowspec, 0)
                IN /\ sliced.error.kind = "ok" /\ whole.error.kind = "ok"
                   /\ sliced.x = whole.x
                   /\ sliced.y = whole.y

C6_Witness ==
    /\ phase = "sliced" /\ offset >= 1
    /\ rowspec.kind = "pairs" /\ Len(rowspec.t) = 2
    /\ yvec.kind = "vec"
    /\ Len(sliced.x) = 2
    /\ buffer # SubBuffer(FullMatrix, offset)

\* C8: for a spec of more than one pair, slice_array returns the local rows
\* start - r, ..., end - r - 1 of each pair, pair after pair, and
\* assign_predictions stores the k-th block row in the k-th row of that
\* enumeration and leaves every other cell as it was.
C8_MultiRangeRows ==
    (Written /\ rowspec.kind = "pairs" /\ Len(rowspec.t) > 1) =>
        LET rows == ClaimedRows(rowspec.t, offset)
            before == SubBuffer(FullMatrix, offset)
        IN /\ Len(rows) = Len(block.rows)
           /\ \A k \in DOMAIN rows : \A j \in 1..block.width :
                 buffer[rows[k] + 1][column + j] = block.rows[k][j]
           /\ \A i \in DOMAIN buffer : \A j \in 1..NCols :
                 (\/ \A k \in DOMAIN rows : rows[k] # i - 1
                  \/ j - 1 < column
                  \/ j - 1 >= column + block.width)
                 => buffer[i][j] = before[i][j]
           /\ phase = "sliced" =>
                /\ sliced.error.kind = "ok"
                /\ sliced.x = [k \in DOMAIN rows |-> buffer[rows[k] + 1]]
                /\ yvec.kind = "vec" =>
                     sliced.y = Vec([k \in DOMAIN rows |-> yvec.v[rows[k] + 1]])

C8_Witness ==
    /\ phase = "sliced" /\ offset = 1
    /\ rowspec = PairTuple(<<(<<3, 4>>), (<<1, 2>>)>>)
    /\ sliced.x = <<buffer[3], buffer[1]>>
    /\ buffer[3][column + 1] = block.rows[1][1]

\* C10 (as claimed): slice_array on a spec that holds a pair with
\* end <= start fails with an indexing error.
C10_MalformedRaises ==
    (phase = "sliced"
        /\ \/ rowspec.kind = "pair" /\ IsMalformed(rowspec.t)
           \/ rowspec.kind = "pairs" /\ \E k \in DOMAIN rowspec.t : IsMalformed(rowspec.t[k]))
    => sliced.error.kind = "IndexError"

\* C10 (amended): a pair with end <= start raises nothing. In a tuple of
\* pairs it contributes no rows: the call returns the rows of the other
\* pairs, and fails only when one of those starts before the buffer or ends
\* past it. As a bare pair the call returns, and returns no rows whenever
\* r <= end.
C10_MalformedSelectsNothing ==
    phase = "sliced" =>
        /\ (rowspec.kind = "pairs" /\ \E k \in DOMAIN rowspec.t : IsMalformed(rowspec.t[k])) =>
              LET rows == ClaimedRows(rowspec.t, offset)
                  proper == {k \in DOMAIN rowspec.t : ~IsMalformed(rowspec.t[k])}
              IN /\ sliced.error.kind # "ok" =>
                       \E k \in proper : ~InBuffer(rowspec.t[k])
                 /\ (\A k \in proper : InBuffer(rowspec.t[k])) =>
                       /\ sliced.error.kind = "ok"
                       /\ sliced.x = [k \in DOMAIN rows |-> buffer[rows[k] + 1]]
                       /\ \A k \in DOMAIN rows :
                            \E q \in proper :
                                /\ rowspec.t[q][1] - offset <= rows[k]
                                /\ rows[k] < rowspec.t[q][2] - offset
        /\ (rowspec.kind = "pair" /\ IsMalformed(rowspec.t)) =>
              /\ sliced.error.kind = "ok"
              /\ offset <= rowspec.t[2] => sliced.x = <<>>

C10_Witness ==
    /\ phase = "sliced"
    /\ rowspec.kind = "pairs" /\ Len(rowspec.t) = 2
    /\ rowspec.t[1][2] < rowspec.t[1][1]
    /\ ~IsMalformed(rowspec.t[2]) /\ InBuffer(rowspec.t[2])
    /\ sliced.error.kind = "ok"
    /\ Len(sliced.x) = rowspec.t[2][2] - rowspec.t[2][1]

(***************************************************************************)
(* Claims about the workers of one layer.                                  *)
(***************************************************************************)
AllWritten == phase = "allocated" /\ \A w \in Workers : worker_tei[w].kind # "none"

\* The columns [start, start + multiplier) a worker is given.
WorkerColumns(w) == worker_col(w)..(worker_col(w) + multiplier - 1)

\* The global rows a row spec names in the shared matrix.
SpecRows(tei) ==
    CASE tei.kind = "pair" -> tei.t[1]..(tei.t[2] - 1)
      [] tei.kind = "pairs" -> UNION {tei.t[k][1]..(tei.t[k][2] - 1) : k \in DOMAIN tei.t}
      [] OTHER -> 0..(ConcRows - 1)

\* The matrix after the workers have written one after the other, in the
\* order ws.
RECURSIVE WrittenInOrder(_, _)
WrittenInOrder(ws, m) ==
    IF ws = <<>> THEN m
    ELSE WrittenInOrder(Tail(ws),
            assign_predictions(m, col_index, WorkerBlock(ws[1], worker_tei[ws[1]]),
                               worker_tei[ws[1]], worker_col(ws[1]), ConcRows).pred)

RECURSIVE WorkerList(_)
WorkerList(S) ==
    IF S = {} THEN <<>>
    ELSE LET w == CHOOSE a \in S :
                    \A b \in S : a[1] < b[1] \/ (a[1] = b[1] /\ a[2] <= b[2])
         IN <<w>> \o WorkerList(S \ {w})

\* C1: once the layout is fixed, in every interleaving of the workers' calls
\* two workers that were given a common column wrote disjoint rows (no two
\* workers are given a common column at all), every call stores its block,
\* no cell of the matrix is stored into by two different workers, and when
\* all have written the matrix is the one that writing in handle and
\* partition order gives, whatever order the calls ran in.
C1_DisjointWrites ==
    phase = "allocated" =>
        /\ \A a, b \in Workers :
              (a # b /\ WorkerColumns(a) \cap WorkerColumns(b) # {}
                 /\ worker_tei[a].kind # "none" /\ worker_tei[b].kind # "none")
              => SpecRows(worker_tei[a]) \cap SpecRows(worker_tei[b]) = {}
        /\ raised.kind = "ok"
        /\ \A c \in DOMAIN written_by : Cardinality(written_by[c]) <= 1
        /\ \A w \in Workers :
              worker_tei[w].kind # "none" =>
                  {c \in DOMAIN written_by : w \in written_by[c]}
                      = SpecRows(worker_tei[w]) \X WorkerColumns(w)
        /\ AllWritten =>
              buffer = WrittenInOrder(WorkerList(Workers), Zeros(ConcRows, col_index))

C1_Witness ==
    /\ AllWritten
    /\ Cardinality(Workers) >= 2
    /\ multiplier >= 2
    /\ \E a, b \in Workers :
          /\ a # b
          /\ SpecRows(worker_tei[a]) \cap SpecRows(worker_tei[b]) # {}
          /\ \E c \in DOMAIN written_by : written_by[c] = {a}
          /\ \E c \in DOMAIN written_by : written_by[c] = {b}

(***************************************************************************)
(* Claims about transform.                                                 *)
(***************************************************************************)
\* C9 (as claimed): the first call is transform(x); the second call,
\* transform(x, y), is made exactly when the first failed because the
\* signature does not take one argument; any other failure of the first
\* call, a TypeError raised in the body included, leaves transform with no
\* second call; a failure of the second call leaves transform; when the first
\* call returns, y is returned as it was.
C9_RetryOnlyOnSignatureMismatch ==
    phase = "transformed" =>
        LET x == tr_args[1]
            y == tr_args[2]
            first == call_x(transformer, x)
            second == call_xy(transformer, x, y)
        IN /\ Len(calls) \in {1, 2}
           /\ calls[1] = <<x>>
           /\ Len(calls) = 2 <=> first.error = SignatureTypeError
           /\ Len(calls) = 2 => (calls[2] = <<x, y>> /\ raised = second.error)
           /\ (first.error.kind # "ok" /\ first.error # SignatureTypeError)
                 => raised = first.error
           /\ first.error.kind = "ok"
                 => (raised.kind = "ok" /\ returned.x = first.value.v /\ returned.y = y)

=============================================================================
